---------------------------- MODULE Spec2Model ----------------------------
(***************************************************************************)
(* Model of the HTTP/1.1 client (src/client.c lines 1-301) and server      *)
(* (src/client.c lines 302-624).  Byte strings are sequences of one-       *)
(* character strings; NUL is the C string terminator.                      *)
(***************************************************************************)
EXTENDS Integers, Sequences, FiniteSets, TLC

(***************************************************************************)
(* Bytes and C strings                                                     *)
(***************************************************************************)
NUL == "NUL"
CR == "\r"
LF == "\n"
SPC == " "
CRLF == <<CR, LF>>

\* A null pointer: no byte string has this shape (its element is not a byte).
NULL == <<"(null)">>

\* Index of the first element of s at or after position from that lies in set,
\* 0 when there is none (strchr, strpbrk, strstr and strtok all scan this way).
RECURSIVE FindIn(_, _, _)
FindIn(s, set, from) ==
    IF from > Len(s) THEN 0
    ELSE IF s[from] \in set THEN from
    ELSE FindIn(s, set, from + 1)

\* Index of the first element at or after from that is NOT in set, 0 if none.
RECURSIVE FindNotIn(_, _, _)
FindNotIn(s, set, from) ==
    IF from > Len(s) THEN 0
    ELSE IF s[from] \notin set THEN from
    ELSE FindNotIn(s, set, from + 1)

\* s[from .. to], empty when from > to.
Slice(s, from, to) == IF from > to THEN <<>> ELSE SubSeq(s, from, to)

\* The suffix of s that starts at position from (a pointer into s).
From(s, from) == Slice(s, from, Len(s))

\* The C string stored at the start of byte array mem: the bytes before the
\* first NUL.  Memory past the modelled extent of an array reads as NUL.
CStr(mem) ==
    LET z == FindIn(mem, {NUL}, 1)
    IN  IF z = 0 THEN mem ELSE Slice(mem, 1, z - 1)

\* strlen
Strlen(mem) == Len(CStr(mem))

\* The tokens successive strtok(str, delim), strtok(NULL, delim), ... calls
\* return on the C string str: the maximal runs of bytes outside delim.
RECURSIVE Tokens(_, _)
Tokens(str, delim) ==
    LET b == FindNotIn(str, delim, 1)
    IN  IF b = 0 THEN <<>>
        ELSE LET e == FindIn(str, delim, b)
             IN  IF e = 0 THEN <<From(str, b)>>
                 ELSE <<Slice(str, b, e - 1)>> \o Tokens(From(str, e + 1), delim)

\* The k-th strtok result, NULL once the tokens are used up.
Tok(toks, k) == IF k <= Len(toks) THEN toks[k] ELSE NULL

\* Position of the first occurrence of pat in s at or after from, 0 if none.
RECURSIVE FindSub(_, _, _)
FindSub(s, pat, from) ==
    IF from + Len(pat) - 1 > Len(s) THEN 0
    ELSE IF Slice(s, from, from + Len(pat) - 1) = pat THEN from
    ELSE FindSub(s, pat, from + 1)

Digits == <<"0", "1", "2", "3", "4", "5", "6", "7", "8", "9">>
DigitSet == {Digits[i] : i \in 1..10}
DigitVal(c) == (CHOOSE i \in 1..10 : Digits[i] = c) - 1

\* printf("%d") of a non-negative int.
RECURSIVE IntToStr(_)
IntToStr(n) ==
    IF n < 10 THEN <<Digits[n + 1]>>
    ELSE IntToStr(n \div 10) \o <<Digits[(n % 10) + 1]>>


(***************************************************************************)
(* The server's configuration and document root                            *)
(***************************************************************************)
HTTP11 == <<"H", "T", "T", "P", "/", "1", ".", "1">>
HTTP10 == <<"H", "T", "T", "P", "/", "1", ".", "0">>
GET == <<"G", "E", "T">>
PUT == <<"P", "U", "T">>

\* The files below the document root: their bytes, and whether fopen(.., "r")
\* succeeds on them.  Every other path does not exist.
Files ==
    [ p \in { <<"w", "/", "i">>, <<"w", "/", "a">>, <<"w", "/", "e">>,
              <<"w", "/", "z">>, <<"w", "/", "u">> } |->
        CASE p = <<"w", "/", "i">> -> [bytes |-> <<"h", "i", LF>>, readable |-> TRUE]
          [] p = <<"w", "/", "a">> -> [bytes |-> <<"a", LF, "b">>, readable |-> TRUE]
          [] p = <<"w", "/", "e">> -> [bytes |-> <<>>, readable |-> TRUE]
          [] p = <<"w", "/", "z">> -> [bytes |-> <<"a", NUL, "b", LF>>, readable |-> TRUE]
          [] p = <<"w", "/", "u">> -> [bytes |-> <<"s">>, readable |-> FALSE] ]

\* access(path, F_OK) == 0
Access(path) == path \in DOMAIN Files

\* The strftime results the local clock can give during a run.
Dates == { <<"d", "1">>, <<"d", "2">> }

\* What an uninitialised or stale piece of memory can hold, as a C string.
Garbage == { <<>>, <<"?">> }

\* The request bytes a peer can send on a connection (<<>>: it sends nothing and
\* shuts down its sending side).
Req(method, path, version) ==
    method \o <<SPC>> \o path \o <<SPC>> \o version \o CRLF \o CRLF

PeerRequests ==
    { Req(GET, <<"/">>, HTTP11),
      Req(GET, <<"/", "a">>, HTTP11),
      Req(GET, <<"/", "e">>, HTTP11),
      Req(GET, <<"/", "z">>, HTTP11),
      Req(GET, <<"/", "u">>, HTTP11),
      Req(GET, <<"/", "x">>, HTTP11),
      Req(PUT, <<"/">>, HTTP11),
      Req(PUT, <<"/", "x">>, HTTP11),
      Req(PUT, <<"/">>, HTTP10),
      Req(GET, <<"/", "x">>, HTTP10),
      GET \o <<SPC, "/", SPC>> \o HTTP11 \o <<SPC, "k">> \o CRLF,
      GET \o <<SPC, "/">> \o CRLF,
      GET \o <<SPC, "/", SPC>> \o HTTP11,
      <<>> }

(***************************************************************************)
(* The server's request parsing, path resolution and response building     *)
(***************************************************************************)
\* strcpy(buffer_backup, buffer); strtok(buffer_backup, "\r"); then strtok on
\* " " four times: the tokens of the first CR-delimited piece of the buffer.
\* When the first strtok finds no piece, the later calls, continuing at the end
\* of the same string, find none either.
RequestTokens(buf) ==
    LET pieces == Tokens(CStr(buf), {CR})
    IN  IF pieces = <<>> THEN <<>> ELSE Tokens(pieces[1], {SPC})

VARIABLES
    docRoot,         \* char* docRoot = argv[optind] of the server
    defaultFileName  \* char defaultFileName[32]: "index.html" or the -i option

\* A resolution that appends the default file name to every path.
ResolvePathAlways(requestedFileName) ==
    docRoot \o requestedFileName \o defaultFileName

\* sprintf(requestedPath, ...): the default file name is appended only when
\* the request path ends in '/'.
ResolvePath(requestedFileName) ==
    IF requestedFileName[Len(requestedFileName)] = "/"
    THEN docRoot \o requestedFileName \o defaultFileName
    ELSE docRoot \o requestedFileName

\* The branch the if / else-if chain takes, by the status it answers with.
DispatchMethodFirst(function, version, token, requestedPath) ==
    IF function # GET THEN 501
    ELSE IF token # NULL \/ version # HTTP11 THEN 400
    ELSE IF ~Access(requestedPath) THEN 404
    ELSE 200

Dispatch(function, version, token, requestedPath) ==
    IF token # NULL \/ version # HTTP11 THEN 400
    ELSE IF function # GET THEN 501
    ELSE IF ~Access(requestedPath) THEN 404
    ELSE 200

Header400 ==
    <<"H", "T", "T", "P", "/", "1", ".", "1", SPC, "4", "0", "0", SPC, "B",
      "a", "d", SPC, "R", "e", "q", "u", "e", "s", "t", CR, LF, "C", "o",
      "n", "n", "e", "c", "t", "i", "o", "n", ":", SPC, "c", "l", "o", "s",
      "e", CR, LF>>

Header501 ==
    <<"H", "T", "T", "P", "/", "1", ".", "1", SPC, "5", "0", "1", SPC, "N",
      "o", "t", SPC, "I", "m", "p", "l", "e", "m", "e", "n", "t", "e", "d",
      CR, LF, "C", "o", "n", "n", "e", "c", "t", "i", "o", "n", ":", SPC,
      "c", "l", "o", "s", "e", CR, LF>>

Header404 ==
    <<"H", "T", "T", "P", "/", "1", ".", "1", SPC, "4", "0", "4", SPC, "N",
      "o", "t", SPC, "F", "o", "u", "n", "d", CR, LF, "C", "o", "n", "n",
      "e", "c", "t", "i", "o", "n", ":", SPC, "c", "l", "o", "s", "e", CR,
      LF>>

ErrorHeader(status) ==
    CASE status = 400 -> Header400
      [] status = 501 -> Header501
      [] status = 404 -> Header404

StatusLine200 ==
    <<"H", "T", "T", "P", "/", "1", ".", "1", SPC, "2", "0", "0", SPC, "O",
      "K", CR, LF, "D", "a", "t", "e", ":", SPC>>
ContentLengthField ==
    <<CR, LF, "C", "o", "n", "t", "e", "n", "t", "-", "L", "e", "n", "g",
      "t", "h", ":", SPC>>
ConnectionCloseTail ==
    <<CR, LF, "C", "o", "n", "n", "e", "c", "t", "i", "o", "n", ":", SPC,
      "C", "l", "o", "s", "e", CR, LF, CR, LF>>

\* sprintf(header, "HTTP/1.1 200 OK\r\nDate: %s\r\nContent-Length: %d\r\n
\* Connection: Close\r\n\r\n", timeString, (int)strlen(bodyContent))
Header200(timeString, body) ==
    StatusLine200 \o timeString \o ContentLengthField
        \o IntToStr(Strlen(body)) \o ConnectionCloseTail

\* The byte strings successive getline calls return on a stream holding
\* bytes: each runs up to and including the next LF, the last one to the end.
RECURSIVE GetLines(_)
GetLines(bytes) ==
    IF bytes = <<>> THEN <<>>
    ELSE LET n == FindIn(bytes, {LF}, 1)
         IN  IF n = 0 THEN <<bytes>>
             ELSE <<Slice(bytes, 1, n)>> \o GetLines(From(bytes, n + 1))

\* bodyContent after the getline loop over lines (at least one line): strncpy
\* of the first line and sprintf("%s") of each later one both stop at a NUL.
RECURSIVE AssembleBody(_)
AssembleBody(lines) ==
    IF lines = <<>> THEN <<>>
    ELSE CStr(lines[1]) \o AssembleBody(Tail(lines))

(***************************************************************************)
(* State                                                                   *)
(***************************************************************************)
VARIABLES
    run,            \* volatile sig_atomic_t run
    waiting,        \* volatile sig_atomic_t waiting
    pc,             \* where the server's main is
    sockfd,         \* the listening socket: "listening" or "closed"
    connfd,         \* the accepted connection, NoConn when none is open
    buffer,         \* char buffer[1512] of the server loop
    requestedPath,  \* char requestedPath[]
    header,         \* char header[128]
    bodyContent,    \* what char* bodyContent points at, as a C string
    bodyState,      \* "uninit", "alloc" or "freed": the state of that pointer
    srvErr,         \* what the server wrote to stderr
    backlog,        \* connections the kernel completed and accept has not taken
    lastConn,       \* the connection the server closed last, as its peer saw it
    nConn,          \* connections made so far
    nSig,           \* signals delivered so far
    cpc,            \* where the client's main is
    url,            \* argv[optind] of the client, NULL when absent
    O_isUsed,       \* bool O_isUsed
    D_isUsed,       \* bool D_isUsed
    hostName,       \* char hostName[]
    requestMessage, \* char requestMessage[]
    peer,           \* what the client connected to: "none", "server", "other"
    sockfdC,        \* the client's socket: 0, or the id of its connection
    bufferC,        \* char buffer[1512] of the client
    exitCode,       \* the client's exit status, -1 while it runs
    stderrC,        \* what the client wrote to stderr
    stdoutC,        \* the body the client wrote to stdout
    outputFile,     \* the file the client wrote: NoFile or its name and bytes
    calls           \* the socket calls the client has made, in order

clientVars == <<cpc, url, O_isUsed, D_isUsed, hostName, requestMessage, peer,
                sockfdC, bufferC, exitCode, stderrC, stdoutC, outputFile,
                calls>>

config == <<docRoot, defaultFileName>>
globals == <<run, waiting>>
locals == <<buffer, requestedPath, header, bodyContent, bodyState>>
net == <<connfd, backlog, lastConn, nConn>>
serverVars == <<docRoot, defaultFileName, run, waiting, pc, sockfd, connfd,
                buffer, requestedPath, header, bodyContent, bodyState, srvErr,
                backlog, lastConn, nConn, nSig>>

\* Bounds of the model.
MaxConns == 2
MaxSignals == 2

\* listen(sockfd, 1)
ListenBacklog == 1

\* recvs counts the recv calls that returned data of the connection.
NoConn ==
    [id |-> 0, req |-> <<>>, ready |-> FALSE, sends |-> <<>>, recvs |-> 0]

\* The server process has ended: main returned or exit was called ("done":
\* EXIT_SUCCESS at the end of main, "failed": EXIT_FAILURE, "handler_exit":
\* exit(0) inside handle_signal), or it was killed by a fault ("crashed").
Terminated == pc \in {"done", "failed", "handler_exit", "crashed"}

ServerInit ==
    /\ docRoot = <<"w">>
    /\ defaultFileName = <<"i">>
    /\ run = 1
    /\ waiting = 0
    /\ pc = "loop"
    /\ sockfd = "listening"
    /\ connfd = NoConn
    /\ buffer \in Garbage
    /\ requestedPath = <<>>
    /\ header = <<>>
    /\ bodyContent = <<>>
    /\ bodyState = "uninit"
    /\ srvErr = <<>>
    /\ backlog = <<>>
    /\ lastConn = NoConn
    /\ nConn = 0
    /\ nSig = 0

(***************************************************************************)
(* The environment of the server: peers and signals                        *)
(***************************************************************************)
\* A peer connects and sends req; the kernel queues the connection.
PeerConnect(req) ==
    /\ sockfd = "listening"
    /\ ~Terminated
    /\ nConn < MaxConns
    /\ Len(backlog) < ListenBacklog
    /\ nConn' = nConn + 1
    /\ backlog' = Append(backlog, [id |-> nConn + 1, req |-> req, ready |-> TRUE,
                                  sends |-> <<>>, recvs |-> 0])
    /\ UNCHANGED <<globals, locals, pc, sockfd, connfd, srvErr, lastConn, nSig, config, clientVars>>

\* handle_signal: SIGINT or SIGTERM is delivered between two steps of main.
HandleSignal ==
    /\ ~Terminated
    /\ nSig < MaxSignals
    /\ nSig' = nSig + 1
    /\ srvErr' = Append(srvErr, "Signal detected")
    /\ run' = 0
    /\ pc' = IF waiting = 1 THEN "handler_exit" ELSE pc
    /\ UNCHANGED <<waiting, locals, net, sockfd, config, clientVars>>

(***************************************************************************)
(* The server's accept loop                                                *)
(***************************************************************************)
\* while (run == 1) ... close(sockfd); return EXIT_SUCCESS;
LoopTest ==
    /\ pc = "loop"
    /\ IF run = 1
       THEN pc' = "set_waiting" /\ UNCHANGED sockfd
       ELSE pc' = "done" /\ sockfd' = "closed"
    /\ UNCHANGED <<globals, locals, net, srvErr, nSig, config, clientVars>>

\* waiting = 1;
SetWaiting ==
    /\ pc = "set_waiting"
    /\ waiting' = 1
    /\ pc' = "accept"
    /\ UNCHANGED <<run, locals, net, sockfd, srvErr, nSig, config, clientVars>>

\* int connfd = accept(sockfd, NULL, NULL); blocks until a connection is queued.
Accept ==
    /\ pc = "accept"
    /\ backlog # <<>>
    /\ connfd' = Head(backlog)
    /\ backlog' = Tail(backlog)
    /\ pc' = "clear_waiting"
    /\ UNCHANGED <<globals, locals, lastConn, nConn, sockfd, srvErr, nSig, config, clientVars>>

\* accept fails: perror, close(sockfd), exit(EXIT_FAILURE).
AcceptFail ==
    /\ pc = "accept"
    /\ srvErr' = Append(srvErr, "accept() failed")
    /\ sockfd' = "closed"
    /\ pc' = "failed"
    /\ UNCHANGED <<globals, locals, net, nSig, config, clientVars>>

\* waiting = 0;
ClearWaiting ==
    /\ pc = "clear_waiting"
    /\ waiting' = 0
    /\ pc' = "recv"
    /\ UNCHANGED <<run, locals, net, sockfd, srvErr, nSig, config, clientVars>>

\* A failure that ends the connection only: the loop goes on.
FailClosingKeepsServing(msg) ==
    /\ srvErr' = Append(srvErr, msg)
    /\ lastConn' = connfd
    /\ connfd' = NoConn
    /\ pc' = "loop"

\* close(connfd); exit(EXIT_FAILURE); after perror(msg)
FailClosing(msg) ==
    /\ srvErr' = Append(srvErr, msg)
    /\ lastConn' = connfd
    /\ connfd' = NoConn
    /\ pc' = "failed"

\* recv(connfd, buffer, sizeof(buffer), 0) stores the bytes received at the
\* start of buffer and leaves the rest of the array as it was.
Recv ==
    /\ pc = "recv"
    /\ connfd.ready
    /\ \/ /\ buffer' = connfd.req \o From(buffer, Len(connfd.req) + 1)
          /\ connfd' = [connfd EXCEPT !.recvs = @ + 1]
          /\ pc' = "parse"
          /\ UNCHANGED <<lastConn, srvErr>>
       \/ /\ FailClosing("recv() failed")
          /\ UNCHANGED buffer
    /\ UNCHANGED <<globals, requestedPath, header, bodyContent, bodyState,
                   backlog, nConn, sockfd, nSig, config, clientVars>>

\* The branch of lines 522-550 the request in buf takes: function, version and
\* token are the first, third and fourth strtok results.
RequestStatus(buf) ==
    LET toks == RequestTokens(buf)
    IN  Dispatch(toks[1], toks[3], Tok(toks, 4), ResolvePath(toks[2]))

\* Lines 493-522 and the strcpy(header, ...) of the branch taken.  strlen of a
\* null requestedFileName (fewer than two tokens) and strcmp of a null version
\* (two tokens) are null pointer reads: the process is killed.
ParseRequest ==
    /\ pc = "parse"
    /\ \/ /\ Len(RequestTokens(buffer)) < 3
          /\ pc' = "crashed"
          /\ UNCHANGED <<requestedPath, header>>
       \/ /\ Len(RequestTokens(buffer)) >= 3
          /\ requestedPath' = ResolvePath(RequestTokens(buffer)[2])
          /\ pc' = IF RequestStatus(buffer) = 200 THEN "serve" ELSE "send_error"
          /\ header' = IF RequestStatus(buffer) = 200 THEN header
                       ELSE ErrorHeader(RequestStatus(buffer))
    /\ UNCHANGED <<globals, buffer, bodyContent, bodyState, net, sockfd, srvErr, nSig, config, clientVars>>

\* send(connfd, header, strlen(header), 0) of a 400, 501 or 404 header.
SendError ==
    /\ pc = "send_error"
    /\ \/ /\ connfd' = [connfd EXCEPT !.sends = Append(@, CStr(header))]
          /\ pc' = "close"
          /\ UNCHANGED <<lastConn, srvErr>>
       \/ FailClosing("send() failed")
    /\ UNCHANGED <<globals, locals, backlog, nConn, sockfd, nSig, config, clientVars>>

\* Lines 551-602: fopen, the getline loop, the timestamp and the 200 header.
\*  - malloc(read) holds read bytes and bodyContent[read] = '\0' writes one
\*    byte past them: the write lands in allocator slack or damages the heap.
\*  - A file with no line leaves bodyContent unassigned: strlen reads whatever
\*    the pointer holds, a fault or some stale string.
ServeFile ==
    /\ pc = "serve"
    /\ LET file == Files[requestedPath]
           lines == GetLines(file.bytes)
       IN  \/ /\ ~file.readable
              /\ FailClosing("fopen() failed")
              /\ UNCHANGED <<header, bodyContent, bodyState>>
           \/ /\ file.readable
              /\ lines # <<>>
              /\ \E timeString \in Dates :
                    /\ bodyContent' = AssembleBody(lines)
                    /\ bodyState' = "alloc"
                    /\ header' = Header200(timeString, AssembleBody(lines))
                    /\ pc' = "send_header"
                    /\ UNCHANGED <<connfd, lastConn, srvErr>>
           \/ /\ file.readable
              /\ bodyContent' = IF lines # <<>> THEN AssembleBody(lines)
                                ELSE bodyContent
              /\ bodyState' = IF lines # <<>> THEN "freed" ELSE bodyState
              /\ FailClosing("localtime")
              /\ UNCHANGED header
           \/ /\ file.readable
              /\ Len(lines) > 1
              /\ bodyContent' = CStr(lines[1])
              /\ bodyState' = "alloc"
              /\ pc' = "failed"
              /\ UNCHANGED <<header, connfd, lastConn, srvErr>>
           \/ /\ file.readable
              /\ lines # <<>>
              /\ pc' = "crashed"
              /\ UNCHANGED <<header, bodyContent, bodyState, connfd, lastConn, srvErr>>
           \/ /\ file.readable
              /\ lines = <<>>
              /\ pc' = "crashed"
              /\ UNCHANGED <<header, bodyContent, bodyState, connfd, lastConn, srvErr>>
           \/ /\ file.readable
              /\ lines = <<>>
              /\ \E timeString \in Dates, stale \in Garbage :
                    /\ bodyContent' = stale
                    /\ header' = Header200(timeString, stale)
                    /\ pc' = "send_header"
                    /\ UNCHANGED <<bodyState, connfd, lastConn, srvErr>>
    /\ UNCHANGED <<globals, buffer, requestedPath, backlog, nConn, sockfd, nSig, config, clientVars>>

\* free(bodyContent) of a pointer malloc or realloc returned.
Free == bodyState' = "freed"

\* send(connfd, header, strlen(header), 0) of the 200 header.
SendHeader ==
    /\ pc = "send_header"
    /\ \/ /\ connfd' = [connfd EXCEPT !.sends = Append(@, CStr(header))]
          /\ pc' = "send_body"
          /\ UNCHANGED <<lastConn, srvErr, bodyState>>
       \/ /\ FailClosing("send() failed")
          /\ Free
    /\ UNCHANGED <<globals, buffer, requestedPath, header, bodyContent, backlog,
                   nConn, sockfd, nSig, config, clientVars>>

\* send(connfd, bodyContent, strlen(bodyContent), 0); free(bodyContent).
\* Freeing a pointer that was never assigned either goes unnoticed or aborts.
SendBody ==
    /\ pc = "send_body"
    /\ \/ /\ connfd' = [connfd EXCEPT !.sends = Append(@, CStr(bodyContent))]
          /\ bodyState = "alloc"
          /\ Free
          /\ pc' = "close"
          /\ UNCHANGED <<lastConn, srvErr>>
       \/ /\ connfd' = [connfd EXCEPT !.sends = Append(@, CStr(bodyContent))]
          /\ bodyState # "alloc"
          /\ \E next \in {"close", "crashed"} : pc' = next
          /\ UNCHANGED <<lastConn, srvErr, bodyState>>
       \/ /\ FailClosing("send() failed")
          /\ Free
    /\ UNCHANGED <<globals, buffer, requestedPath, header, bodyContent, backlog,
                   nConn, sockfd, nSig, config, clientVars>>

\* A loop body that ends without closing the connection.
CloseConnLeak ==
    /\ pc = "close"
    /\ pc' = "loop"
    /\ UNCHANGED <<globals, locals, net, sockfd, srvErr, nSig, config, clientVars>>

\* close(connfd); the end of the loop body.
CloseConn ==
    /\ pc = "close"
    /\ lastConn' = connfd
    /\ connfd' = NoConn
    /\ pc' = "loop"
    /\ UNCHANGED <<globals, locals, backlog, nConn, sockfd, srvErr, nSig, config, clientVars>>

\* One step of main that needs nothing from outside the process.
ServerStep ==
    \/ LoopTest
    \/ SetWaiting
    \/ ClearWaiting
    \/ Recv
    \/ ParseRequest
    \/ SendError
    \/ ServeFile
    \/ SendHeader
    \/ SendBody
    \/ CloseConn

(***************************************************************************)
(* The client's URL parsing, request building and response parsing         *)
(***************************************************************************)
HTTP_PREFIX == <<"h", "t", "t", "p", ":", "/", "/">>

\* char* checkList = ";/:@=&";
checkList == {";", "/", ":", "@", "=", "&"}

\* strpbrk(&url[7], checkList) and strchr(&url[7], '/') as positions in url,
\* 0 for a null result.
TempCheck(u) == FindIn(u, checkList, 8)
RequestedFile(u) == FindIn(u, {"/"}, 8)

\* int hostLength = strlen(url) - strlen(tempCheck) - 7; strncpy(hostName, ..)
HostName(u) ==
    LET hostLength == Len(u) - Len(From(u, TempCheck(u))) - 7
    IN  Slice(u, 8, 7 + hostLength)

RequestMid ==
    <<SPC, "H", "T", "T", "P", "/", "1", ".", "1", CR, LF, "H", "o", "s",
      "t", ":", SPC>>
RequestTail ==
    <<CR, LF, "C", "o", "n", "n", "e", "c", "t", "i", "o", "n", ":", SPC,
      "c", "l", "o", "s", "e", CR, LF, CR, LF>>

\* A request that carries one more header field.
BuildRequestWithAgent(requestedFileName, host) ==
    GET \o <<SPC>> \o requestedFileName \o RequestMid \o host
        \o <<CR, LF, "U", "s", "e", "r", "-", "A", "g", "e", "n", "t", ":",
             SPC, "c">> \o RequestTail

\* sprintf(requestMessage, "GET %s HTTP/1.1\r\nHost: %s\r\nConnection: close
\* \r\n\r\n", requestedFileName, hostName)
BuildRequest(requestedFileName, host) ==
    GET \o <<SPC>> \o requestedFileName \o RequestMid \o host \o RequestTail

\* char requestMessage[39 + strlen(requestedFileName) + strlen(hostName)]
RequestRoom == 39
RequestCapacity(requestedFileName, host) ==
    RequestRoom + Len(requestedFileName) + Len(host)

\* char buffer[1512] of the client
ClientBufferSize == 1512

WhiteSpace == {SPC, "\t", LF, CR}

\* strtol(str, &end, 10): val is the number read and endp the position in str
\* of the first byte not read (1 when no digits were found: end == str).
RECURSIVE DigitsValue(_)
DigitsValue(ds) ==
    IF ds = <<>> THEN 0
    ELSE 10 * DigitsValue(Slice(ds, 1, Len(ds) - 1)) + DigitVal(ds[Len(ds)])

Strtol(str) ==
    LET b == FindNotIn(str, WhiteSpace, 1)
        signed == b # 0 /\ str[b] \in {"+", "-"}
        d == IF b = 0 THEN 0 ELSE IF signed THEN b + 1 ELSE b
        stop == IF d = 0 THEN 0 ELSE FindNotIn(str, DigitSet, d)
        e == IF stop = 0 THEN Len(str) + 1 ELSE stop
    IN  IF d = 0 \/ d > Len(str) \/ e = d
        THEN [val |-> 0, endp |-> 1]
        ELSE [val |-> (IF signed /\ str[b] = "-" THEN -1 ELSE 1)
                        * DigitsValue(Slice(str, d, e - 1)),
              endp |-> e]

\* The test of line 257: strcmp(endPointer2, secondWord) == 0 ||
\* strcmp(firstWord, "HTTP/1.1") != 0
ProtocolError(firstWord, secondWord) ==
    \/ From(secondWord, Strtol(secondWord).endp) = secondWord
    \/ firstWord # HTTP11

\* Lines 263-264: strtok(buff2, "\n") and strchr(&token[1], ' ') as the text
\* handed to fprintf, NULL when the first line has no space after its first
\* byte.
StatusText(str) ==
    LET token == Tok(Tokens(str, {LF}), 1)
        sp == IF token = NULL THEN 0 ELSE FindIn(token, {SPC}, 2)
    IN  IF sp = 0 THEN NULL ELSE From(token, sp)

\* strstr(buffer, "\r\n\r\n") and &tempPtr[4]: the body, NULL when the
\* boundary is missing.
BodyOf(str) ==
    LET tempPtr == FindSub(str, CRLF \o CRLF, 1)
    IN  IF tempPtr = 0 THEN NULL ELSE From(str, tempPtr + 4)

\* The arguments of -o and -d, and the name -d derives from the URL (lines
\* 135-147): what follows the last '/', index.html when nothing does.
outputFileName == <<"o">>
outputDirectory == <<"t">>
IndexHtml ==
    <<"i", "n", "d", "e", "x", ".", "h", "t", "m", "l">>

RECURSIVE LastSlash(_, _)
LastSlash(u, i) ==
    IF i = 0 THEN 0 ELSE IF u[i] = "/" THEN i ELSE LastSlash(u, i - 1)

DerivedFileName(u) ==
    LET index == LastSlash(u, Len(u))
    IN  IF index = Len(u) THEN IndexHtml ELSE From(u, index + 1)

\* sprintf(pathFile, "%s/%s" or "%s%s", outputDirectory, outputFileName)
PathFile(u) ==
    IF outputDirectory[Len(outputDirectory)] = "/"
    THEN outputDirectory \o DerivedFileName(u)
    ELSE outputDirectory \o <<"/">> \o DerivedFileName(u)

RECURSIVE Flatten(_)
Flatten(seqs) == IF seqs = <<>> THEN <<>> ELSE Head(seqs) \o Flatten(Tail(seqs))

Take(s, n) == IF Len(s) <= n THEN s ELSE SubSeq(s, 1, n)

(***************************************************************************)
(* The client's inputs                                                     *)
(***************************************************************************)
\* The URL arguments tried; NULL is a command line without a URL.
Urls ==
    {
      <<"h", "t", "t", "p", ":", "/", "/", "h", "/">>,
      <<"h", "t", "t", "p", ":", "/", "/", "h", "/", "a">>,
      <<"h", "t", "t", "p", ":", "/", "/", "h", "/", "x">>,
      <<"h", "t", "t", "p", ":", "/", "/", "h", "/", "e">>,
      <<"h", "t", "t", "p", ":", "/", "/", "h", "/", "z">>,
      <<"h", "t", "t", "p", ":", "/", "/", "h">>,
      <<"h", "t", "t", "p", ":", "/", "/", "h", ":", "8", "/", "a">>,
      <<"h", "t", "t", "p", ":", "/", "h">>,
      <<"h", "t", "t", "p", ":", "/">>,
      <<"a", "b">>,
      NULL }

\* What a server other than this repository's can answer before it closes.
OtherResponses ==
    {
      <<"H", "T", "T", "P", "/", "1", ".", "1", SPC, "2", "0", "0", SPC, "O",
        "K", CR, LF, CR, LF, "h", "i">>,
      <<"H", "T", "T", "P", "/", "1", ".", "1", SPC, "2", "0", "0", "a", "b",
        "c", SPC, "O", "K", CR, LF, CR, LF, "h", "i">>,
      <<"H", "T", "T", "P", "/", "1", ".", "0", SPC, "2", "0", "0", SPC, "O",
        "K", CR, LF, CR, LF, "h", "i">>,
      <<"H", "T", "T", "P", "/", "1", ".", "1", SPC, "a", "b", "c", SPC, "O",
        "K", CR, LF, CR, LF, "h", "i">>,
      <<"H", "T", "T", "P", "/", "1", ".", "1", SPC, "4", "0", "4", SPC, "N",
        "o", "t", SPC, "F", "o", "u", "n", "d", CR, LF, "C", "o", "n", "n",
        "e", "c", "t", "i", "o", "n", ":", SPC, "c", "l", "o", "s", "e", CR,
        LF>>,
      <<"H", "T", "T", "P", "/", "1", ".", "1", SPC, "3", "0", "1", SPC, "M",
        "%", "s", CR, LF, CR, LF>>,
      <<"H", "T", "T", "P", "/", "1", ".", "1", SPC, "5", "0", "0", CR, LF,
        CR, LF>>,
      <<"H", "T", "T", "P", "/", "1", ".", "1", SPC, "2", "0", "0", SPC, "O",
        "K", CR, LF>>,
      <<"H", "T", "T", "P", "/", "1", ".", "1">>,
      <<>> }

NoFile == [name |-> <<>>, bytes |-> <<>>, written |-> FALSE]

ClientOff ==
    /\ cpc = "off"
    /\ url = NULL
    /\ O_isUsed = FALSE
    /\ D_isUsed = FALSE
    /\ hostName = <<>>
    /\ requestMessage = <<>>
    /\ peer = "none"
    /\ sockfdC = 0
    /\ bufferC = <<>>
    /\ exitCode = -1
    /\ stderrC = <<>>
    /\ stdoutC = <<>>
    /\ outputFile = NoFile
    /\ calls = <<>>

\* The client with its command line: -o and -d exclude each other, and with -d
\* the URL is the last argument.
ClientInit ==
    /\ cpc = "options"
    /\ url \in Urls
    /\ O_isUsed \in BOOLEAN
    /\ D_isUsed \in BOOLEAN
    /\ ~(O_isUsed /\ D_isUsed)
    /\ D_isUsed => url # NULL
    /\ hostName = <<>>
    /\ requestMessage = <<>>
    /\ peer = "none"
    /\ sockfdC = 0
    /\ bufferC = <<>>
    /\ exitCode = -1
    /\ stderrC = <<>>
    /\ stdoutC = <<>>
    /\ outputFile = NoFile
    /\ calls = <<>>

(***************************************************************************)
(* The client's main                                                       *)
(***************************************************************************)
\* exit(code) after writing msg to stderr (the program's own messages are
\* kept as one-element texts).
ClientExit(code, msg) ==
    /\ exitCode' = code
    /\ stderrC' = Append(stderrC, msg)
    /\ cpc' = "exited"

\* The getopt loop (lines 78-159).  Case 'd' scans url = argv[argc - 1] for its
\* last '/' into int index, which has no initial value: for a URL without '/'
\* malloc and strcpy(outputFileName, &url[index + 1]) use an indeterminate
\* index, which goes unnoticed or kills the process.
GetOpt ==
    /\ cpc = "options"
    /\ \/ cpc' = "start"
       \/ /\ D_isUsed
          /\ "/" \notin {url[i] : i \in DOMAIN url}
          /\ cpc' = "crashed"
    /\ UNCHANGED <<calls, url, O_isUsed, D_isUsed, hostName, requestMessage, peer,
                   sockfdC, bufferC, exitCode, stderrC, stdoutC, outputFile,
                   serverVars>>

\* Lines 162-166: usage("Invalid URL") exits with 1.
CheckUrl ==
    /\ cpc = "start"
    /\ IF url = NULL \/ Strlen(url) < 8
       THEN ClientExit(1, <<"Usage Error!">>)
       ELSE cpc' = "parse_url" /\ UNCHANGED <<exitCode, stderrC>>
    /\ UNCHANGED <<calls, url, O_isUsed, D_isUsed, hostName, requestMessage, peer,
                   sockfdC, bufferC, stdoutC, outputFile, serverVars>>

\* Lines 174-186.  strlen of a null tempCheck or requestedFileName kills the
\* process; a request longer than requestMessage is written past its end,
\* which either goes unnoticed or kills the process.
ParseUrl ==
    /\ cpc = "parse_url"
    /\ IF TempCheck(url) = 0 \/ RequestedFile(url) = 0
       THEN cpc' = "crashed" /\ UNCHANGED <<hostName, requestMessage>>
       ELSE LET path == From(url, RequestedFile(url))
                request == BuildRequest(path, HostName(url))
            IN  /\ hostName' = HostName(url)
                /\ requestMessage' = request
                /\ \/ cpc' = "connect"
                   \/ /\ Len(request) + 1 > RequestCapacity(path, HostName(url))
                      /\ cpc' = "crashed"
    /\ UNCHANGED <<calls, url, O_isUsed, D_isUsed, peer, sockfdC, bufferC, exitCode,
                   stderrC, stdoutC, outputFile, serverVars>>

\* Lines 196-222: getaddrinfo, the banner, socket and connect.  The host is
\* this repository's server or some other server.
Connect ==
    /\ cpc = "connect"
    /\ \/ /\ ClientExit(1, <<"getaddrinfo() failed">>)
          /\ UNCHANGED <<peer, sockfdC, stdoutC, calls, serverVars>>
       \/ /\ ClientExit(1, <<"socket() or connect() failed">>)
          /\ stdoutC' = Append(stdoutC, "Connecting to the host...")
          /\ calls' = Append(calls, "connect")
          /\ UNCHANGED <<peer, sockfdC, serverVars>>
       \/ /\ sockfd = "listening"
          /\ ~Terminated
          /\ nConn < MaxConns
          /\ Len(backlog) < ListenBacklog
          /\ nConn' = nConn + 1
          /\ backlog' = Append(backlog, [id |-> nConn + 1, req |-> <<>>,
                                         ready |-> FALSE, sends |-> <<>>,
                                         recvs |-> 0])
          /\ peer' = "server"
          /\ sockfdC' = nConn + 1
          /\ stdoutC' = Append(stdoutC, "Connecting to the host...")
          /\ calls' = Append(calls, "connect")
          /\ cpc' = "send"
          /\ UNCHANGED <<exitCode, stderrC, globals, locals, pc, sockfd, connfd,
                         srvErr, lastConn, nSig, config>>
       \/ /\ peer' = "other"
          /\ sockfdC' = -1
          /\ stdoutC' = Append(stdoutC, "Connecting to the host...")
          /\ calls' = Append(calls, "connect")
          /\ cpc' = "send"
          /\ UNCHANGED <<exitCode, stderrC, serverVars>>
    /\ UNCHANGED <<url, O_isUsed, D_isUsed, hostName, requestMessage, bufferC,
                   outputFile>>

\* The bytes reach the server's side of connection id (or its peer is gone).
Arrive(id, bytes) ==
    /\ backlog' = [i \in DOMAIN backlog |->
                     IF backlog[i].id = id
                     THEN [backlog[i] EXCEPT !.req = bytes, !.ready = TRUE]
                     ELSE backlog[i]]
    /\ connfd' = IF connfd.id = id /\ id # 0
                 THEN [connfd EXCEPT !.req = bytes, !.ready = TRUE]
                 ELSE connfd

\* send(sockfd, requestMessage, strlen(requestMessage), 0)
Send ==
    /\ cpc = "send"
    /\ \/ /\ Arrive(sockfdC, CStr(requestMessage))
          /\ cpc' = "recv"
          /\ UNCHANGED <<exitCode, stderrC>>
       \/ /\ Arrive(sockfdC, <<>>)
          /\ ClientExit(1, <<"send() failed">>)
    /\ calls' = Append(calls, "send")
    /\ UNCHANGED <<url, O_isUsed, D_isUsed, hostName, requestMessage, peer,
                   sockfdC, bufferC, stdoutC, outputFile, globals, locals, pc,
                   sockfd, srvErr, lastConn, nConn, nSig,
                   config>>

\* What the server sent on the client's connection, once the server has closed
\* it or has ended.
ServerClosed ==
    \/ lastConn.id = sockfdC
    \/ Terminated /\ connfd.id = sockfdC
FromServer == Flatten(IF lastConn.id = sockfdC THEN lastConn.sends ELSE connfd.sends)

\* recv(sockfd, buffer, sizeof(buffer), MSG_WAITALL) into the zeroed buffer,
\* then close(sockfd).
RecvC ==
    /\ cpc = "recv"
    /\ \/ /\ peer = "server"
          /\ ServerClosed
          /\ bufferC' = Take(FromServer, ClientBufferSize)
          /\ cpc' = "parse_status"
          /\ sockfdC' = 0
          /\ calls' = calls \o <<"recv", "close">>
          /\ UNCHANGED <<exitCode, stderrC>>
       \/ /\ peer = "other"
          /\ \E response \in OtherResponses :
                bufferC' = Take(response, ClientBufferSize)
          /\ cpc' = "parse_status"
          /\ sockfdC' = 0
          /\ calls' = calls \o <<"recv", "close">>
          /\ UNCHANGED <<exitCode, stderrC>>
       \/ /\ ClientExit(1, <<"recv() failed">>)
          /\ calls' = Append(calls, "recv")
          /\ UNCHANGED <<bufferC, sockfdC>>
    /\ UNCHANGED <<url, O_isUsed, D_isUsed, hostName, requestMessage, peer,
                   stdoutC, outputFile, serverVars>>

\* Lines 238-268.  strtol of a null secondWord kills the process; so does
\* strcpy of a buffer that holds no NUL.  The status text is the format of
\* fprintf: with a '%' in it, fprintf reads arguments that were not passed.
ParseStatus ==
    /\ cpc = "parse_status"
    /\ LET str == CStr(bufferC)
           toks == Tokens(str, {SPC})
           firstWord == Tok(toks, 1)
           secondWord == Tok(toks, 2)
       IN  IF Len(bufferC) >= ClientBufferSize \/ secondWord = NULL
           THEN cpc' = "crashed" /\ UNCHANGED <<exitCode, stderrC>>
           ELSE IF ProtocolError(firstWord, secondWord)
           THEN ClientExit(2, <<"Protocol error!">>)
           ELSE IF Strtol(secondWord).val # 200
           THEN IF StatusText(str) = NULL
                THEN cpc' = "crashed" /\ UNCHANGED <<exitCode, stderrC>>
                ELSE IF "%" \in {StatusText(str)[i] : i \in DOMAIN StatusText(str)}
                THEN \/ cpc' = "crashed" /\ UNCHANGED <<exitCode, stderrC>>
                     \/ \E printed \in Garbage : ClientExit(3, printed)
                ELSE ClientExit(3, StatusText(str))
           ELSE cpc' = "output" /\ UNCHANGED <<exitCode, stderrC>>
    /\ UNCHANGED <<calls, url, O_isUsed, D_isUsed, hostName, requestMessage, peer,
                   sockfdC, bufferC, stdoutC, outputFile, serverVars>>

\* Lines 269-300: the body goes to the -d file, the -o file or stdout.
\* &tempPtr[4] of a null tempPtr is read by fputs or printf: a fault.
Output ==
    /\ cpc = "output"
    /\ LET body == BodyOf(CStr(bufferC))
       IN  IF body = NULL
           THEN cpc' = "crashed" /\ UNCHANGED <<exitCode, stdoutC, outputFile>>
           ELSE /\ exitCode' = 0
                /\ cpc' = "exited"
                /\ IF D_isUsed
                   THEN /\ outputFile' = [name |-> PathFile(url), bytes |-> body,
                                          written |-> TRUE]
                        /\ UNCHANGED stdoutC
                   ELSE IF O_isUsed
                   THEN /\ outputFile' = [name |-> outputFileName, bytes |-> body,
                                          written |-> TRUE]
                        /\ UNCHANGED stdoutC
                   ELSE /\ stdoutC' = Append(stdoutC, body \o <<LF>>)
                        /\ UNCHANGED outputFile
    /\ UNCHANGED <<calls, url, O_isUsed, D_isUsed, hostName, requestMessage, peer,
                   sockfdC, bufferC, stderrC, serverVars>>

ClientStep ==
    \/ GetOpt
    \/ CheckUrl
    \/ ParseUrl
    \/ Connect
    \/ Send
    \/ RecvC
    \/ ParseStatus
    \/ Output

(***************************************************************************)
(* Specifications                                                          *)
(***************************************************************************)
vars == <<serverVars, clientVars>>

\* The server with arbitrary peers and signals; no client of this repository.
Init == ServerInit /\ ClientOff

Next ==
    \/ ServerStep
    \/ Accept
    \/ AcceptFail
    \/ HandleSignal
    \/ \E req \in PeerRequests : PeerConnect(req)

Spec == Init /\ [][Next]_vars

\* One run of the client against this server or another one.
ExchangeInit == ServerInit /\ ClientInit

ExchangeNext ==
    \/ ClientStep
    \/ ServerStep
    \/ Accept

ExchangeSpec == ExchangeInit /\ [][ExchangeNext]_vars

\* The path resolution alone: a server started with any of these document
\* roots and -i names that has just received a GET for any of these paths.
DocRoots == { <<"w">>, <<"w", "/">>, <<".">>, <<"/", "r", "/", "s">> }
DefaultNames == { <<"i">>, <<"x", ".", "h">>, <<>> }
RequestPaths ==
    { <<"/">>, <<"/", "a">>, <<"/", "a", "/">>, <<"/", "a", "/", "b">>,
      <<"/", ".">>, <<"/", "/">> }

ResolveInit ==
    /\ docRoot \in DocRoots
    /\ defaultFileName \in DefaultNames
    /\ run = 1
    /\ waiting = 0
    /\ pc = "parse"
    /\ sockfd = "listening"
    /\ \E path \in RequestPaths :
          /\ connfd = [id |-> 1, req |-> Req(GET, path, HTTP11), ready |-> TRUE,
                       sends |-> <<>>, recvs |-> 0]
          /\ buffer = Req(GET, path, HTTP11)
    /\ requestedPath = <<>>
    /\ header = <<>>
    /\ bodyContent = <<>>
    /\ bodyState = "uninit"
    /\ srvErr = <<>>
    /\ backlog = <<>>
    /\ lastConn = NoConn
    /\ nConn = 1
    /\ nSig = 0
    /\ ClientOff

ResolveNext == ParseRequest

ResolveSpec == ResolveInit /\ [][ResolveNext]_vars

(***************************************************************************)
(* Vocabulary of the properties                                            *)
(***************************************************************************)
Range(s) == {s[i] : i \in DOMAIN s}

\* The status code in the first bytes the server sent on connection c: the
\* three digits after "HTTP/1.1 ".
SentStatus(c) == DigitsValue(Slice(c.sends[1], 10, 12))

\* The request line of req: the bytes before its first carriage return.
RequestLine(req) == Slice(req, 1, FindIn(req, {CR}, 1) - 1)

\* The status the priority order of the specification gives a request line:
\* 400 before 501 before 404 before 200.
ExpectedStatus(req) ==
    LET toks == Tokens(RequestLine(req), {SPC})
    IN  IF Len(toks) # 3 \/ toks[3] # HTTP11 THEN 400
        ELSE IF toks[1] # GET THEN 501
        ELSE IF ResolvePath(toks[2]) \notin DOMAIN Files THEN 404
        ELSE 200

\* The connections whose answer can be observed: the open one and the one
\* closed last.
Answered == {c \in {connfd, lastConn} : c.sends # <<>>}

----------------------------------------------------------------------------
\* C1: whenever the server has sent a status for a request line it received
\* (bytes ended by a carriage return), the status is the one the priority
\* order gives: 400 for a fourth token or a version other than HTTP/1.1, else
\* 501 for a method other than GET, else 404 for a missing resolved path, else
\* 200.  A non-GET request with a wrong version gets 400 and a non-GET request
\* for a missing file gets 501.
C1_StatusPriority ==
    \A c \in Answered :
        /\ CR \in Range(c.req) => SentStatus(c) = ExpectedStatus(c.req)
        /\ c.req = Req(PUT, <<"/">>, HTTP10) => SentStatus(c) = 400
        /\ c.req = Req(PUT, <<"/", "x">>, HTTP11) => SentStatus(c) = 501

\* Both special cases were answered, one connection after the other.
C1_Witness ==
    /\ lastConn.req = Req(PUT, <<"/">>, HTTP10)
    /\ lastConn.sends # <<>>
    /\ connfd.req = Req(PUT, <<"/", "x">>, HTTP11)
    /\ connfd.sends # <<>>

----------------------------------------------------------------------------
\* C2: a signal delivered while waiting = 0 does not end the process in the
\* handler and clears run; from then on (run = 0, process alive) the server
\* accepts no further connection.
C2_SignalOutsideAccept ==
    [][ /\ (nSig' = nSig + 1 /\ waiting = 0) => (~Terminated' /\ run' = 0)
        /\ (run = 0 /\ ~Terminated) => ~(pc = "accept" /\ pc' = "clear_waiting")
      ]_vars

----------------------------------------------------------------------------
\* C3: after a signal the server process ends without needing a further
\* connection or signal: a running server that has received a signal is never
\* blocked in accept on an idle listening socket.
C3_NeverIdleAfterSignal ==
    (nSig > 0 /\ ~Terminated) => ~(pc = "accept" /\ backlog = <<>>)

----------------------------------------------------------------------------
\* C4: the signal handler never ends the process while an accepted
\* connection is open.
C4_NoHalfServedExit == ~(pc = "handler_exit" /\ connfd # NoConn)

----------------------------------------------------------------------------
\* Vocabulary of the properties of responses.
ErrorStatuses == {400, 501, 404}

ConnectionCloseField ==
    <<CR, LF, "C", "o", "n", "n", "e", "c", "t", "i", "o", "n", ":", SPC,
      "c", "l", "o", "s", "e", CR, LF>>

\* msg is an HTTP/1.1 response made of a head only: a status line with a
\* three-digit code, header fields among them Connection: close, the empty
\* line that ends the head, and nothing after it.
HeaderOnly(msg) ==
    /\ Len(msg) >= 13
    /\ Slice(msg, 1, 9) = HTTP11 \o <<SPC>>
    /\ \A i \in 10..12 : msg[i] \in DigitSet
    /\ FindSub(msg, ConnectionCloseField, 1) # 0
    /\ FindSub(msg, CRLF \o CRLF, 1) = Len(msg) - 3

\* The number in the Content-Length field of head hdr.
ContentLength(hdr) ==
    LET d == FindSub(hdr, ContentLengthField, 1) + Len(ContentLengthField)
    IN  DigitsValue(Slice(hdr, d, FindIn(hdr, {CR}, d) - 1))

----------------------------------------------------------------------------
\* C5: a 400, 501 or 404 answer is one send of a well-formed header-only
\* response with Connection: close and no body; once it is sent the server is
\* about to close the connection and go back to its loop, not to end.
C5_ErrorResponse ==
    \A c \in Answered :
        SentStatus(c) \in ErrorStatuses =>
            /\ Len(c.sends) = 1
            /\ HeaderOnly(c.sends[1])
            /\ c = connfd => pc = "close"

----------------------------------------------------------------------------
\* C6: a 200 answer announces in Content-Length the exact number of bytes of
\* the file served, and its second send, once made, is exactly those bytes.
C6_ExactBody ==
    (connfd.sends # <<>> /\ SentStatus(connfd) = 200) =>
        /\ ContentLength(connfd.sends[1]) = Len(Files[requestedPath].bytes)
        /\ Len(connfd.sends) <= 2
        /\ pc = "close" => Len(connfd.sends) = 2
        /\ Len(connfd.sends) = 2 => connfd.sends[2] = Files[requestedPath].bytes

----------------------------------------------------------------------------
\* Vocabulary of the properties of the client.
\* The client has received the response and has acted on its status line.
StatusParsed ==
    /\ peer # "none"
    /\ sockfdC = 0
    /\ cpc \in {"output", "exited", "crashed"}

\* No body has reached the output file or the standard output (which holds at
\* most the connection banner).
NoBodyDelivered == ~outputFile.written /\ Len(stdoutC) <= 1

\* The file of the document root the client's URL names.
SourceFile == Files[ResolvePath(From(url, RequestedFile(url)))]

----------------------------------------------------------------------------
\* C7: after one GET exchange in which the server sent head and body, the
\* bytes the client wrote to its output file are the bytes of the source file
\* (a text file without zero bytes, within the buffer's capacity).
C7_RoundTrip ==
    (/\ peer = "server" /\ exitCode = 0 /\ outputFile.written
     /\ Len(lastConn.sends) = 2 \/ Len(connfd.sends) = 2
     /\ NUL \notin Range(SourceFile.bytes)
     /\ Len(SourceFile.bytes) <= ClientBufferSize)
        => outputFile.bytes = SourceFile.bytes

----------------------------------------------------------------------------
\* u has the form http://<host><path>: a non-empty host free of the reserved
\* characters and a path that is absent or starts at the first '/'.
ValidUrl(u) ==
    /\ u # NULL
    /\ Len(u) >= 8
    /\ Slice(u, 1, 7) = HTTP_PREFIX
    /\ u[8] \notin checkList
    /\ \A i \in 8..Len(u) : u[i] \in checkList => FindIn(u, {"/"}, 8) \in 1..i

\* The path the client put into its request: the second word of the request.
RequestPath == Tok(Tokens(requestMessage, {SPC}), 2)

\* C8: once the client has parsed a valid URL, "http://" + host + path is the
\* URL when the URL has a path, and the path is "/" when it has none.
C8_UrlRoundTrip ==
    (cpc \notin {"options", "start", "parse_url"} /\ ValidUrl(url)) =>
        IF FindIn(url, {"/"}, 8) # 0
        THEN HTTP_PREFIX \o hostName \o RequestPath = url
        ELSE HTTP_PREFIX \o hostName = url /\ RequestPath = <<"/">>

----------------------------------------------------------------------------
\* The response str has HTTP/1.1 as its first space-separated word and, as its
\* second, a base-10 integer with nothing after it.
StrictStatusLine(str) ==
    LET toks == Tokens(str, {SPC})
    IN  /\ Len(toks) >= 2
        /\ toks[1] = HTTP11
        /\ Strtol(toks[2]).endp = Len(toks[2]) + 1

\* C9: a response is accepted only with a strict status line; on any other
\* response the client exits with code 2 and delivers no body.
C9_StrictProtocolCheck ==
    (StatusParsed /\ ~StrictStatusLine(CStr(bufferC))) =>
        exitCode = 2 /\ NoBodyDelivered

----------------------------------------------------------------------------
\* The first line of response str, without its line end.
FirstLine(str) ==
    LET e == FindIn(str, {CR, LF}, 1)
    IN  IF e = 0 THEN str ELSE Slice(str, 1, e - 1)

\* The first line of str is HTTP/1.1, a base-10 status code and, possibly, a
\* reason.
ValidStatusLine(str) ==
    LET toks == Tokens(FirstLine(str), {SPC})
    IN  /\ Len(toks) >= 2
        /\ toks[1] = HTTP11
        /\ \A i \in DOMAIN toks[2] : toks[2][i] \in DigitSet

StatusCode(str) == DigitsValue(Tokens(FirstLine(str), {SPC})[2])

\* The reason: the text after the status code on the first line.
Reason(str) ==
    LET line == FirstLine(str)
        sp == FindIn(line, {SPC}, FindIn(line, {SPC}, 1) + 1)
    IN  IF sp = 0 THEN <<>> ELSE From(line, sp + 1)

\* C10: a request for a missing file is answered 404 Not Found, the client
\* prints the reason Not Found to stderr, delivers no body and exits with 3;
\* any valid status line with a code other than 200 ends the client with 3.
C10_NonOkStatus ==
    /\ (StatusParsed /\ peer = "server" /\ bufferC # <<>>
          /\ ResolvePath(From(url, RequestedFile(url))) \notin DOMAIN Files) =>
            /\ StatusCode(bufferC) = 404
            /\ exitCode = 3
            /\ stderrC[Len(stderrC)] = Reason(bufferC)
            /\ NoBodyDelivered
    /\ (StatusParsed /\ ValidStatusLine(CStr(bufferC))
          /\ StatusCode(CStr(bufferC)) # 200) => exitCode = 3

----------------------------------------------------------------------------
\* The path a peer asked for: the second word of its request line.
AskedPath(req) == Tokens(RequestLine(req), {SPC})[2]

\* C11: once the request is parsed, requestedPath is docRoot + path +
\* defaultFileName when the path ends in '/', and docRoot + path otherwise,
\* for every document root, path and default file name.
C11_ResolvedPath ==
    pc # "parse" =>
        LET path == AskedPath(connfd.req)
        IN  requestedPath = IF path[Len(path)] = "/"
                            THEN docRoot \o path \o defaultFileName
                            ELSE docRoot \o path

C11_Witness ==
    /\ pc # "parse"
    /\ docRoot = <<"/", "r", "/", "s">>
    /\ requestedPath = <<"/", "r", "/", "s", "/", "a", "/", "x", ".", "h">>

----------------------------------------------------------------------------
DateField == <<"D", "a", "t", "e", ":", SPC>>

\* The head hdr without the value of its Date field.
StripDate(hdr) ==
    LET d == FindSub(hdr, DateField, 1)
    IN  IF d = 0 THEN hdr
        ELSE Slice(hdr, 1, d + Len(DateField) - 1)
                 \o From(hdr, FindIn(hdr, {CR}, d))

\* The head, less the Date value, that the request bytes req and the document
\* root determine by themselves: what the server answers when nothing but req
\* is in its receive buffer and the body is what it reads from the file.
ReferenceHead(req) ==
    LET toks == RequestTokens(req)
        status == Dispatch(toks[1], toks[3], Tok(toks, 4), ResolvePath(toks[2]))
    IN  IF status # 200 THEN ErrorHeader(status)
        ELSE StripDate(Header200(<<>>,
                 AssembleBody(GetLines(Files[ResolvePath(toks[2])].bytes))))

\* C12: the head sent on a connection, its Date value aside, is determined by
\* the bytes received on that connection and the document root alone; so the
\* same request gets the same head whatever was served before.
C12_NoStateAcrossExchanges ==
    /\ \A c \in Answered :
          /\ Len(RequestTokens(c.req)) >= 3
          /\ StripDate(c.sends[1]) = ReferenceHead(c.req)
    /\ (lastConn.sends # <<>> /\ connfd.sends # <<>> /\ lastConn.req = connfd.req)
          => StripDate(lastConn.sends[1]) = StripDate(connfd.sends[1])

----------------------------------------------------------------------------
\* C13: a client whose URL is absent or shorter than 8 characters ends with
\* exit code 1, and does so without resolving, connecting, sending or
\* receiving anything.
C13_ShortUrlExitsEarly ==
    (url = NULL \/ Len(url) < 8) =>
        /\ cpc \in {"options", "start"} \/ (cpc = "exited" /\ exitCode = 1)
        /\ peer = "none"
        /\ nConn = 0
        /\ stdoutC = <<>>

----------------------------------------------------------------------------
IsPrefix(a, b) == Len(a) <= Len(b) /\ a = SubSeq(b, 1, Len(a))

\* The socket calls of one exchange, in their order.
ExchangeOrder == <<"connect", "send", "recv", "close">>

\* GET <path> HTTP/1.1 CRLF Host: <host> CRLF Connection: close CRLF CRLF
ExpectedRequest(path, host) ==
    GET \o <<SPC>> \o path \o <<SPC>> \o HTTP11 \o CRLF
        \o <<"H", "o", "s", "t", ":", SPC>> \o host
        \o ConnectionCloseField \o CRLF

Connections == {connfd, lastConn} \cup Range(backlog)

\* C14: the client's socket calls are connect, one send, one recv and close,
\* in that order; what it sends is exactly the GET request for its path and
\* host, with no other header; and the server takes exactly one request from
\* a connection it answers, never a second one.
C14_OneExchange ==
    /\ IsPrefix(calls, ExchangeOrder)
    /\ "send" \in Range(calls) =>
          CStr(requestMessage)
              = ExpectedRequest(From(url, FindIn(url, {"/"}, 8)), hostName)
    /\ \A c \in Connections :
          /\ c.recvs <= 1
          /\ c.sends # <<>> => c.recvs = 1
          /\ (c.id # 0 /\ c.req # <<>>) =>
                c.req = ExpectedRequest(From(url, FindIn(url, {"/"}, 8)), hostName)

C14_Witness ==
    /\ calls = ExchangeOrder
    /\ peer = "server"
    /\ lastConn.recvs = 1
    /\ lastConn.sends # <<>>
    /\ lastConn.req = ExpectedRequest(<<"/", "a">>, <<"h">>)

----------------------------------------------------------------------------
\* C15: whatever request buffer was received, parsing it leads to exactly one
\* of the four branches (the three error answers or serving the file); no
\* received request takes the server out of its loop without a response.
C15_ParsedToBranch ==
    [][ pc = "parse" => pc' \in {"parse", "send_error", "serve"} ]_vars

----------------------------------------------------------------------------
\* C16: the body buffer is read or released only while it is allocated, and
\* it has been released whenever the exchange is about to close its
\* connection or the server has left the exchange, on every path.
C16_BodyReleasedOnce ==
    /\ pc \in {"send_header", "send_body"} => bodyState = "alloc"
    /\ pc \in {"close", "loop", "failed", "done"} => bodyState # "alloc"

----------------------------------------------------------------------------
\* C17: the request the client has built, with its terminating NUL, fits the
\* array requestMessage, whatever the host and the path.
C17_RequestFits ==
    requestMessage # <<>> =>
        Len(requestMessage) + 1
            <= RequestCapacity(From(url, RequestedFile(url)), hostName)

----------------------------------------------------------------------------
TransportErrors == {"recv() failed", "send() failed"}

\* C18: once recv or send has failed on an accepted connection, that
\* connection is closed and the server has ended with failure status; it is
\* never again in its accept loop.
C18_TransportFailureIsFatal ==
    (\E i \in DOMAIN srvErr : srvErr[i] \in TransportErrors) =>
        /\ pc = "failed"
        /\ connfd = NoConn
        /\ lastConn.id # 0

C18_Witness ==
    /\ pc = "failed"
    /\ srvErr = <<"send() failed">>
    /\ lastConn.id = 2
    /\ connfd = NoConn

----------------------------------------------------------------------------
\* C19: at most one accepted connection is open: whenever the server tests
\* its run flag, is about to call accept or is blocked in it, no accepted
\* connection is open.
C19_OneConnectionAtATime ==
    pc \in {"loop", "set_waiting", "accept"} => connfd = NoConn

C19_Witness ==
    /\ pc = "recv"
    /\ connfd.id = 2
    /\ lastConn.id = 1
    /\ lastConn.sends # <<>>

----------------------------------------------------------------------------
\* C20: a run of the signal handler changes nothing but the run flag and,
\* when waiting = 1, the position of the process: waiting, the sockets, the
\* connection state and the standard error stream are as they were.
C20_HandlerFrame ==
    [][ nSig' # nSig =>
          /\ UNCHANGED <<waiting, sockfd, connfd, lastConn, backlog, srvErr>>
          /\ run' = 0
          /\ pc' = IF waiting = 1 THEN "handler_exit" ELSE pc ]_vars

----------------------------------------------------------------------------
\* C21: whatever bytes the client's single receive returned, the client does
\* not end abnormally: once the socket is closed it is either still working
\* towards an exit or has exited with code 0, 2 or 3, and it has exited 0
\* only with everything after the first CRLF-CRLF written to exactly one
\* output (the -d file, the -o file, or standard output with a newline).
Received == \E i \in DOMAIN calls : calls[i] = "close"

WrittenOnce(body) ==
    IF D_isUsed
    THEN /\ outputFile = [name |-> PathFile(url), bytes |-> body, written |-> TRUE]
         /\ Len(stdoutC) = 1
    ELSE IF O_isUsed
    THEN /\ outputFile = [name |-> outputFileName, bytes |-> body, written |-> TRUE]
         /\ Len(stdoutC) = 1
    ELSE /\ outputFile = NoFile
         /\ Len(stdoutC) = 2
         /\ stdoutC[2] = body \o <<LF>>

C21_ReceiveAlwaysSettles ==
    Received =>
      /\ cpc \in {"parse_status", "output", "exited"}
      /\ cpc = "exited" => exitCode \in {0, 2, 3}
      /\ (cpc = "exited" /\ exitCode = 0) =>
            /\ BodyOf(CStr(bufferC)) # NULL
            /\ WrittenOnce(BodyOf(CStr(bufferC)))

============================================================================
